---- MODULE Spec2Model ----
(***************************************************************************)
(* CrossingBench core (src/src/crossingbench/core.py): the cost model      *)
(* (energy_intra, energy_cross, crossing_fraction, log_slope, run_point)   *)
(* and the two engines built on it (sweep, compare_baseline_vs_reduced).   *)
(*                                                                         *)
(* Numbers.  Byte and event counts are Python ints and are integers here.  *)
(* Costs are floats in the code; here a cost is an integer number of cost  *)
(* quanta, so every energy (count * cost, and their sums) is an integer    *)
(* number of quanta and is computed exactly.  A quotient of two energies   *)
(* is kept as the pair [num, den] with den > 0 and compared by cross       *)
(* multiplication.  A quotient of two logarithms is kept as the record     *)
(* [kind |-> "logquot", ...] of the four positive arguments and compared   *)
(* with rationals by integer powers.  Inside the bounds of the model the   *)
(* exact values and the code's double-precision values round to the same   *)
(* integers.  Magnitudes at which doubles overflow or lose integer         *)
(* precision (above 2^53, or beyond 1.8e308) lie outside the model.        *)
(***************************************************************************)
EXTENDS Integers, Sequences, FiniteSets, TLC

\* a / b for b > 0, as an exact quotient
Quot(a, b) == [kind |-> "quot", num |-> a, den |-> b]

\* ---------------------------------------------------------------- bounds
\* cross_min, cross_max, cross_bytes range over -1 .. MaxCross
MaxCross == 6
\* steps ranges over 1 .. MaxSteps
MaxSteps == 4
\* bytes_per_event ranges over -1 .. MaxBpe
MaxBpe == 3
\* arguments of the directly called pure functions range over -1 .. MaxArg
MaxArg == 4

\* cost values (in quanta) a ComputeCost or BoundaryCost field may hold; the
\* dataclasses do not validate, so a negative cost can be constructed
CostValues == {-1, 0, 1}
\* bytes_compute values
ComputeBytes == {0, 3}
CrossValues == -1 .. MaxCross
StepValues == 1 .. MaxSteps
BpeValues == -1 .. MaxBpe
ArgValues == -1 .. MaxArg
\* reduce_factor ranges over the halves -1/2, 0, 1/2, 1, ..., MaxFactorHalves / 2
\* (a half of an integer is an exact double)
MaxFactorHalves == 6
FactorValues == {Quot(h, 2) : h \in -1 .. MaxFactorHalves}

VARIABLES
    pc,         \* position in the running call
    op,         \* the function that was called
    args,       \* its keyword arguments
    i,          \* loop index of the running loop of sweep
    points,     \* sweep: list of ProgramPoint
    energies,   \* sweep: list of (p, c_intra, c_cross, c_total, frac)
    results,    \* sweep: list of ResultPoint
    ret,        \* the returned value
    err         \* the raised exception, <<type, message>>

vars == <<pc, op, args, i, points, energies, results, ret, err>>

None == [kind |-> "none"]
NoError == <<>>

\* ------------------------------------------------------------ arithmetic
Max(a, b) == IF a >= b THEN a ELSE b

RECURSIVE Pow(_, _)
Pow(b, e) == IF e = 0 THEN 1 ELSE b * Pow(b, e - 1)

\* int(math.ceil(a / b)) for a >= 0, b > 0
CeilDiv(a, b) == (a + b - 1) \div b

\* the literal 0.0
Zero == Quot(0, 1)

\* float("inf")
Infinity == [kind |-> "inf", sign |-> 1]
NegInfinity == [kind |-> "inf", sign |-> -1]

\* round(a / b) for a >= 0, b > 0: Python 3 rounds a tie to the even integer
RoundHalfEven(a, b) ==
    LET q == a \div b
        r == a % b
    IN  IF 2 * r < b THEN q
        ELSE IF 2 * r > b THEN q + 1
        ELSE IF q % 2 = 0 THEN q ELSE q + 1

\* order and equality of exact quotients
QLeq(p, q) == p.num * q.den <= q.num * p.den
QEq(p, q) == p.num * q.den = q.num * p.den

\* ------------------------------------------------------------ cost model
ComputeCost(pj) == [pj_per_byte |-> pj]
BoundaryCost(alpha, beta) == [alpha_pj_per_event |-> alpha, beta_pj_per_byte |-> beta]
ProgramPoint(bc, b, ev) == [bytes_compute |-> bc, bytes_cross |-> b, events_cross |-> ev]

energy_intra(bytes_compute, compute) == bytes_compute * compute.pj_per_byte

\* faulty variant of energy_cross: alpha charged per byte and beta per event
energy_cross_swapped(bytes_cross, events_cross, boundary) ==
    events_cross * boundary.beta_pj_per_byte
        + bytes_cross * boundary.alpha_pj_per_event

energy_cross(bytes_cross, events_cross, boundary) ==
    events_cross * boundary.alpha_pj_per_event
        + bytes_cross * boundary.beta_pj_per_byte

\* faulty variant of crossing_fraction: the guard lets c_total = 0 through
crossing_fraction_strict_guard(c_cross, c_total) ==
    IF c_total < 0 THEN Quot(0, 1) ELSE Quot(c_cross, c_total)

\* faulty variant of crossing_fraction: the share of the intra-domain energy
crossing_fraction_intra_share(c_cross, c_total) ==
    IF c_total <= 0 THEN Quot(0, 1) ELSE Quot(c_total - c_cross, c_total)

crossing_fraction(c_cross, c_total) ==
    IF c_total <= 0 THEN Zero ELSE Quot(c_cross, c_total)

\* (math.log(y2) - math.log(y1)) / (math.log(x2) - math.log(x1)), all four
\* arguments positive and x1 # x2
LogQuot(x1, y1, x2, y2) ==
    [kind |-> "logquot", x1 |-> x1, y1 |-> y1, x2 |-> x2, y2 |-> y2]

\* the float 0.0 returned by a guard
ZeroSlope == [kind |-> "zero"]

\* faulty variant of log_slope: the guard lets x1 = 0 and y1 = 0 through
log_slope_strict_guard(x1, y1, x2, y2) ==
    IF x1 < 0 \/ x2 <= 0 \/ y1 < 0 \/ y2 <= 0 \/ x1 = x2
    THEN ZeroSlope
    ELSE LogQuot(x1, y1, x2, y2)

\* faulty variant of log_slope: no guard for x1 = x2
log_slope_without_equal_guard(x1, y1, x2, y2) ==
    IF x1 <= 0 \/ x2 <= 0 \/ y1 <= 0 \/ y2 <= 0
    THEN ZeroSlope
    ELSE LogQuot(x1, y1, x2, y2)

log_slope(x1, y1, x2, y2) ==
    IF x1 <= 0 \/ x2 <= 0 \/ y1 <= 0 \/ y2 <= 0 \/ x1 = x2
    THEN ZeroSlope
    ELSE LogQuot(x1, y1, x2, y2)

\* faulty variant of run_point: the crossing energy is subtracted in the total
run_point_total_sign(p, compute, boundary) ==
    LET c_intra == energy_intra(p.bytes_compute, compute)
        c_cross == energy_cross(p.bytes_cross, p.events_cross, boundary)
        c_total == c_intra - c_cross
        frac == crossing_fraction(c_cross, c_total)
    IN  [c_intra |-> c_intra, c_cross |-> c_cross, c_total |-> c_total, frac |-> frac]

run_point(p, compute, boundary) ==
    LET c_intra == energy_intra(p.bytes_compute, compute)
        c_cross == energy_cross(p.bytes_cross, p.events_cross, boundary)
        c_total == c_intra + c_cross
        frac == crossing_fraction(c_cross, c_total)
    IN  [c_intra |-> c_intra, c_cross |-> c_cross, c_total |-> c_total, frac |-> frac]

\* ------------------------------------------------------------------ sweep
\* faulty variant of GeoSample: interpolates from cross_max down to cross_min
GeoSample_reversed(cross_min, cross_max, k, n) ==
    LET X == Pow(2, n) * Pow(cross_min, k) * Pow(cross_max, n - k)
    IN  CHOOSE b \in 0 .. cross_max + 1 :
            /\ Pow(2 * b + 1, n) > X
            /\ \A c \in 0 .. b - 1 : Pow(2 * c + 1, n) <= X

\* int(round(math.exp(log_min + t * (log_max - log_min)))) with t = k / n:
\* the integer nearest to the n-th root of cross_min^(n-k) * cross_max^k.
\* b is that integer iff (2b-1)^n <= 2^n * cross_min^(n-k) * cross_max^k < (2b+1)^n;
\* a tie is impossible, (2b+1)^n being odd.
GeoSample(cross_min, cross_max, k, n) ==
    LET X == Pow(2, n) * Pow(cross_min, n - k) * Pow(cross_max, k)
    IN  CHOOSE b \in 0 .. cross_max + 1 :
            /\ Pow(2 * b + 1, n) > X
            /\ \A c \in 0 .. b - 1 : Pow(2 * c + 1, n) <= X

\* faulty variant of EventsFor: the quotient is truncated, not rounded up
EventsFor_floor(b, bytes_per_event) == Max(1, b \div bytes_per_event)

\* max(1, int(math.ceil(b / bytes_per_event)))
EventsFor(b, bytes_per_event) == Max(1, CeilDiv(b, bytes_per_event))

\* faulty variant of SweepError: cross_min = 0 and cross_max = 0 pass
SweepError_strict_cross(a) ==
    IF a.steps < 2 THEN <<"ValueError", "steps must be >= 2">>
    ELSE IF a.cross_min < 0 \/ a.cross_max < 0 \/ a.cross_min > a.cross_max
    THEN <<"ValueError", "Require 0 < cross_min <= cross_max">>
    ELSE IF a.bytes_per_event <= 0
    THEN <<"ValueError", "bytes_per_event must be > 0">>
    ELSE NoError

SweepError(a) ==
    IF a.steps < 2 THEN <<"ValueError", "steps must be >= 2">>
    ELSE IF a.cross_min <= 0 \/ a.cross_max <= 0 \/ a.cross_min > a.cross_max
    THEN <<"ValueError", "Require 0 < cross_min <= cross_max">>
    ELSE IF a.bytes_per_event <= 0
    THEN <<"ValueError", "bytes_per_event must be > 0">>
    ELSE NoError

\* sweep(bytes_compute=..., cross_min=..., ...) is called
SweepCall ==
    /\ pc = "idle"
    /\ \E bc \in ComputeBytes, cmin \in CrossValues, cmax \in CrossValues,
          st \in StepValues, bpe \in BpeValues,
          pj \in CostValues, alpha \in CostValues, beta \in CostValues :
            args' = [bytes_compute |-> bc, cross_min |-> cmin, cross_max |-> cmax,
                     steps |-> st, bytes_per_event |-> bpe,
                     compute |-> ComputeCost(pj),
                     boundary |-> BoundaryCost(alpha, beta)]
    /\ op' = "sweep"
    /\ pc' = "sweep_validate"
    /\ UNCHANGED <<i, points, energies, results, ret, err>>

\* the three argument checks, then points = []
SweepValidate ==
    /\ pc = "sweep_validate"
    /\ IF SweepError(args) # NoError
       THEN /\ err' = SweepError(args)
            /\ pc' = "raised"
            /\ UNCHANGED <<i, points>>
       ELSE /\ points' = <<>>
            /\ i' = 0
            /\ pc' = "sweep_points"
            /\ UNCHANGED err
    /\ UNCHANGED <<op, args, energies, results, ret>>

\* one iteration of `for i in range(steps)`
SweepSample ==
    /\ pc = "sweep_points"
    /\ IF i < args.steps
       THEN LET b == GeoSample(args.cross_min, args.cross_max, i, args.steps - 1)
                ev == EventsFor(b, args.bytes_per_event)
            IN  /\ points' = Append(points, ProgramPoint(args.bytes_compute, b, ev))
                /\ i' = i + 1
                /\ UNCHANGED <<pc, energies>>
       ELSE /\ energies' = <<>>
            /\ i' = 0
            /\ pc' = "sweep_energies"
            /\ UNCHANGED points
    /\ UNCHANGED <<op, args, results, ret, err>>

\* one iteration of `for p in points`
SweepEnergy ==
    /\ pc = "sweep_energies"
    /\ IF i < Len(points)
       THEN LET p == points[i + 1]
                e == run_point(p, args.compute, args.boundary)
            IN  /\ energies' = Append(energies,
                        [p |-> p, c_intra |-> e.c_intra, c_cross |-> e.c_cross,
                         c_total |-> e.c_total, frac |-> e.frac])
                /\ i' = i + 1
                /\ UNCHANGED <<pc, results>>
       ELSE /\ results' = <<>>
            /\ i' = 0
            /\ pc' = "sweep_results"
            /\ UNCHANGED energies
    /\ UNCHANGED <<op, args, points, ret, err>>

\* faulty variant of EpsilonAt: the slope to the next entry, not from the previous
EpsilonAt_forward(es, k) ==
    IF k + 2 > Len(es)
    THEN ZeroSlope
    ELSE log_slope(es[k + 1].p.bytes_cross, es[k + 1].c_total,
                   es[k + 2].p.bytes_cross, es[k + 2].c_total)

\* faulty variant of EpsilonAt: the slope of bytes against total energy
EpsilonAt_swapped_axes(es, k) ==
    IF k = 0
    THEN ZeroSlope
    ELSE log_slope(es[k].c_total, es[k].p.bytes_cross,
                   es[k + 1].c_total, es[k + 1].p.bytes_cross)

\* epsilon_local of entry k (0-based) of the energies list es
EpsilonAt(es, k) ==
    IF k = 0
    THEN ZeroSlope
    ELSE log_slope(es[k].p.bytes_cross, es[k].c_total,
                   es[k + 1].p.bytes_cross, es[k + 1].c_total)

ResultPoint(e, eps) ==
    [bytes_compute |-> e.p.bytes_compute,
     bytes_cross |-> e.p.bytes_cross,
     events_cross |-> e.p.events_cross,
     c_intra_pj |-> e.c_intra,
     c_cross_pj |-> e.c_cross,
     c_total_pj |-> e.c_total,
     crossing_fraction |-> e.frac,
     epsilon_local |-> eps]

\* one iteration of `for i, (...) in enumerate(energies)`, and the return
SweepResult ==
    /\ pc = "sweep_results"
    /\ IF i < Len(energies)
       THEN /\ results' = Append(results, ResultPoint(energies[i + 1], EpsilonAt(energies, i)))
            /\ i' = i + 1
            /\ UNCHANGED <<pc, ret>>
       ELSE /\ ret' = results
            /\ pc' = "returned"
            /\ UNCHANGED <<i, results>>
    /\ UNCHANGED <<op, args, points, energies, err>>

\* ---------------------------------------------------------------- compare
\* faulty variant of CompareError: cross_bytes = 0 passes
CompareError_strict_bytes(a) ==
    IF a.cross_bytes < 0 THEN <<"ValueError", "cross_bytes must be > 0">>
    ELSE IF a.bytes_per_event <= 0
    THEN <<"ValueError", "bytes_per_event must be > 0">>
    ELSE IF a.reduce_factor.num <= 0
    THEN <<"ValueError", "reduce_factor must be > 0">>
    ELSE NoError

CompareError(a) ==
    IF a.cross_bytes <= 0 THEN <<"ValueError", "cross_bytes must be > 0">>
    ELSE IF a.bytes_per_event <= 0
    THEN <<"ValueError", "bytes_per_event must be > 0">>
    ELSE IF a.reduce_factor.num <= 0
    THEN <<"ValueError", "reduce_factor must be > 0">>
    ELSE NoError

\* faulty variant of ReducedBytes: the quotient is truncated, not rounded
ReducedBytes_truncated(cross_bytes, reduce_factor) ==
    Max(1, (cross_bytes * reduce_factor.den) \div reduce_factor.num)

\* faulty variant of ReducedBytes: multiplies by reduce_factor
ReducedBytes_multiplied(cross_bytes, reduce_factor) ==
    Max(1, RoundHalfEven(cross_bytes * reduce_factor.num, reduce_factor.den))

\* max(1, int(round(cross_bytes / reduce_factor)))
ReducedBytes(cross_bytes, reduce_factor) ==
    Max(1, RoundHalfEven(cross_bytes * reduce_factor.den, reduce_factor.num))

\* faulty variant of Gain: divides whenever red_total >= 0
Gain_divides_by_zero(base_total, red_total) ==
    IF red_total >= 0 THEN Quot(base_total, red_total) ELSE Infinity

\* base_total / red_total if red_total > 0 else float("inf")
Gain(base_total, red_total) ==
    IF red_total > 0 THEN Quot(base_total, red_total) ELSE Infinity

\* gain > 0
GainPositive(gain) == gain.kind = "inf" \/ gain.num > 0

\* math.log(gain) / math.log(reduce_factor) for gain > 0, reduce_factor # 1
LogGainOverLogFactor(gain, reduce_factor) ==
    IF gain.kind = "inf"
    THEN IF reduce_factor.num > reduce_factor.den THEN Infinity ELSE NegInfinity
    ELSE LogQuot(reduce_factor.den, gain.den, reduce_factor.num, gain.num)

EffectiveElasticity(gain, reduce_factor) ==
    IF reduce_factor.num # reduce_factor.den /\ GainPositive(gain)
    THEN LogGainOverLogFactor(gain, reduce_factor)
    ELSE ZeroSlope

\* faulty variant of CompareResult: elasticity_effective is left out when
\* reduce_factor = 1, and baseline_cross_bytes echoes the reduced byte count
CompareResult_partial(a, base_ev, red_bytes, red_ev, b, r) ==
    LET gain == Gain(b.c_total, r.c_total)
        common == [baseline_total_pj |-> b.c_total,
                   baseline_intra_pj |-> b.c_intra,
                   baseline_cross_pj |-> b.c_cross,
                   baseline_cross_frac |-> b.frac,
                   baseline_cross_bytes |-> red_bytes,
                   baseline_events |-> base_ev,
                   reduced_total_pj |-> r.c_total,
                   reduced_intra_pj |-> r.c_intra,
                   reduced_cross_pj |-> r.c_cross,
                   reduced_cross_frac |-> r.frac,
                   reduced_cross_bytes |-> red_bytes,
                   reduced_events |-> red_ev,
                   reduce_factor |-> a.reduce_factor,
                   energy_gain_x |-> gain]
    IN  IF a.reduce_factor.num = a.reduce_factor.den
        THEN common
        ELSE [k \in DOMAIN common \cup {"elasticity_effective"} |->
                IF k = "elasticity_effective"
                THEN EffectiveElasticity(gain, a.reduce_factor)
                ELSE common[k]]

CompareResult(a, base_ev, red_bytes, red_ev, b, r) ==
    LET gain == Gain(b.c_total, r.c_total)
    IN  [baseline_total_pj |-> b.c_total,
         baseline_intra_pj |-> b.c_intra,
         baseline_cross_pj |-> b.c_cross,
         baseline_cross_frac |-> b.frac,
         baseline_cross_bytes |-> a.cross_bytes,
         baseline_events |-> base_ev,
         reduced_total_pj |-> r.c_total,
         reduced_intra_pj |-> r.c_intra,
         reduced_cross_pj |-> r.c_cross,
         reduced_cross_frac |-> r.frac,
         reduced_cross_bytes |-> red_bytes,
         reduced_events |-> red_ev,
         reduce_factor |-> a.reduce_factor,
         energy_gain_x |-> gain,
         elasticity_effective |-> EffectiveElasticity(gain, a.reduce_factor)]

\* compare_baseline_vs_reduced(bytes_compute=..., cross_bytes=..., ...) is called
CompareCall ==
    /\ pc = "idle"
    /\ \E bc \in ComputeBytes, cb \in CrossValues, bpe \in BpeValues,
          rf \in FactorValues,
          pj \in CostValues, alpha \in CostValues, beta \in CostValues :
            args' = [bytes_compute |-> bc, cross_bytes |-> cb,
                     bytes_per_event |-> bpe,
                     reduce_factor |-> rf,
                     compute |-> ComputeCost(pj),
                     boundary |-> BoundaryCost(alpha, beta)]
    /\ op' = "compare"
    /\ pc' = "compare_validate"
    /\ UNCHANGED <<i, points, energies, results, ret, err>>

\* the three argument checks, then the base and red ProgramPoints
CompareValidate ==
    /\ pc = "compare_validate"
    /\ IF CompareError(args) # NoError
       THEN /\ err' = CompareError(args)
            /\ pc' = "raised"
            /\ UNCHANGED points
       ELSE LET base_ev == EventsFor(args.cross_bytes, args.bytes_per_event)
                red_bytes == ReducedBytes(args.cross_bytes, args.reduce_factor)
                red_ev == EventsFor(red_bytes, args.bytes_per_event)
            IN  /\ points' = <<ProgramPoint(args.bytes_compute, args.cross_bytes, base_ev),
                               ProgramPoint(args.bytes_compute, red_bytes, red_ev)>>
                /\ pc' = "compare_run"
                /\ UNCHANGED err
    /\ UNCHANGED <<op, args, i, energies, results, ret>>

\* the two run_point calls, gain, eff_eps and the returned dict
CompareEvaluate ==
    /\ pc = "compare_run"
    /\ LET base == points[1]
           red == points[2]
           b == run_point(base, args.compute, args.boundary)
           r == run_point(red, args.compute, args.boundary)
       IN  /\ energies' = <<b, r>>
           /\ ret' = CompareResult(args, base.events_cross, red.bytes_cross,
                                   red.events_cross, b, r)
    /\ pc' = "returned"
    /\ UNCHANGED <<op, args, i, points, results, err>>

\* ------------------------------------------------------- direct calls
\* crossing_fraction(c_cross, c_total) called on its own
CrossingFractionCall ==
    /\ pc = "idle"
    /\ \E c_cross \in ArgValues, c_total \in ArgValues :
            /\ args' = [c_cross |-> c_cross, c_total |-> c_total]
            /\ ret' = crossing_fraction(c_cross, c_total)
    /\ op' = "crossing_fraction"
    /\ pc' = "returned"
    /\ UNCHANGED <<i, points, energies, results, err>>

\* log_slope(x1, y1, x2, y2) called on its own
LogSlopeCall ==
    /\ pc = "idle"
    /\ \E x1 \in ArgValues, y1 \in ArgValues, x2 \in ArgValues, y2 \in ArgValues :
            /\ args' = [x1 |-> x1, y1 |-> y1, x2 |-> x2, y2 |-> y2]
            /\ ret' = log_slope(x1, y1, x2, y2)
    /\ op' = "log_slope"
    /\ pc' = "returned"
    /\ UNCHANGED <<i, points, energies, results, err>>

\* run_point(p, compute, boundary) called on its own
RunPointCall ==
    /\ pc = "idle"
    /\ \E bc \in ComputeBytes, b \in 0 .. MaxArg, ev \in 0 .. MaxArg,
          pj \in CostValues, alpha \in CostValues, beta \in CostValues :
            /\ args' = [p |-> ProgramPoint(bc, b, ev),
                        compute |-> ComputeCost(pj),
                        boundary |-> BoundaryCost(alpha, beta)]
            /\ ret' = run_point(args'.p, args'.compute, args'.boundary)
    /\ op' = "run_point"
    /\ pc' = "returned"
    /\ UNCHANGED <<i, points, energies, results, err>>

\* ------------------------------------------------------------------ system
Init ==
    /\ pc = "idle"
    /\ op = "none"
    /\ args = None
    /\ i = 0
    /\ points = <<>>
    /\ energies = <<>>
    /\ results = <<>>
    /\ ret = None
    /\ err = NoError

Next ==
    \/ SweepCall
    \/ SweepValidate
    \/ SweepSample
    \/ SweepEnergy
    \/ SweepResult
    \/ CompareCall
    \/ CompareValidate
    \/ CompareEvaluate
    \/ CrossingFractionCall
    \/ LogSlopeCall
    \/ RunPointCall

Spec == Init /\ [][Next]_vars

\* ------------------------------------------------------------ properties
NonNegativeCosts(a) ==
    /\ a.compute.pj_per_byte >= 0
    /\ a.boundary.alpha_pj_per_event >= 0
    /\ a.boundary.beta_pj_per_byte >= 0

Returned(f) == op = f /\ pc = "returned"
Raised(f) == op = f /\ pc = "raised"

\* the argument conditions under which sweep is said to fail
SweepArgsRejected(a) ==
    \/ a.steps < 2
    \/ a.cross_min <= 0
    \/ a.cross_max <= 0
    \/ a.cross_min > a.cross_max
    \/ a.bytes_per_event <= 0

CompareArgsRejected(a) ==
    \/ a.cross_bytes <= 0
    \/ a.bytes_per_event <= 0
    \/ a.reduce_factor.num <= 0

EnergiesAre(bc, b, ev, a, c_intra, c_cross, c_total) ==
    /\ c_intra = bc * a.compute.pj_per_byte
    /\ bc = 0 => c_intra = 0
    /\ c_cross = ev * a.boundary.alpha_pj_per_event + b * a.boundary.beta_pj_per_byte
    /\ c_total = c_intra + c_cross
    /\ c_intra >= 0 /\ c_cross >= 0 /\ c_total >= 0

\* C3: with non-negative costs, run_point returns c_intra = bytes_compute *
\* pj_per_byte (0 for no compute bytes), c_cross = events_cross * alpha +
\* bytes_cross * beta and c_total = c_intra + c_cross, none negative; so does
\* every ResultPoint of sweep and both scenarios of compare.
C3_EnergyEquations ==
    /\ (Returned("run_point") /\ NonNegativeCosts(args)) =>
            EnergiesAre(args.p.bytes_compute, args.p.bytes_cross, args.p.events_cross,
                        args, ret.c_intra, ret.c_cross, ret.c_total)
    /\ (op = "sweep" /\ NonNegativeCosts(args)) =>
            \A k \in 1 .. Len(results) :
                EnergiesAre(results[k].bytes_compute, results[k].bytes_cross,
                            results[k].events_cross, args,
                            results[k].c_intra_pj, results[k].c_cross_pj,
                            results[k].c_total_pj)
    /\ (Returned("compare") /\ NonNegativeCosts(args)) =>
            /\ EnergiesAre(args.bytes_compute, ret.baseline_cross_bytes,
                           ret.baseline_events, args, ret.baseline_intra_pj,
                           ret.baseline_cross_pj, ret.baseline_total_pj)
            /\ EnergiesAre(args.bytes_compute, ret.reduced_cross_bytes,
                           ret.reduced_events, args, ret.reduced_intra_pj,
                           ret.reduced_cross_pj, ret.reduced_total_pj)

\* C3 witness: run_point has returned for a point with compute bytes, crossing
\* bytes and events, under positive costs that tell alpha from beta apart
C3_Witness ==
    /\ Returned("run_point")
    /\ args.p.bytes_compute > 0
    /\ args.p.bytes_cross > args.p.events_cross /\ args.p.events_cross > 0
    /\ args.compute.pj_per_byte > 0
    /\ args.boundary.alpha_pj_per_event = 0
    /\ args.boundary.beta_pj_per_byte > 0
    /\ ret.c_total = ret.c_intra + ret.c_cross
    /\ ret.c_cross > 0 /\ ret.c_intra > 0

\* a fraction lies in [0, 1]
InUnitInterval(q) == q.kind = "quot" /\ q.den > 0 /\ 0 <= q.num /\ q.num <= q.den

\* C4: crossing_fraction returns 0 when c_total <= 0 and c_cross / c_total
\* otherwise (1 when c_cross = c_total > 0); with non-negative costs every
\* crossing_fraction of sweep and both fractions of compare lie in [0, 1].
C4_CrossingFraction ==
    /\ Returned("crossing_fraction") =>
            /\ ret.kind = "quot" /\ ret.den > 0
            /\ args.c_total <= 0 => ret.num = 0
            /\ args.c_total > 0 => ret.num * args.c_total = args.c_cross * ret.den
            /\ (args.c_total > 0 /\ args.c_cross = args.c_total) => ret.num = ret.den
    /\ (op = "sweep" /\ NonNegativeCosts(args)) =>
            \A k \in 1 .. Len(results) : InUnitInterval(results[k].crossing_fraction)
    /\ (Returned("compare") /\ NonNegativeCosts(args)) =>
            /\ InUnitInterval(ret.baseline_cross_frac)
            /\ InUnitInterval(ret.reduced_cross_frac)

\* C4 witness: a sweep under non-negative costs has produced a point whose
\* crossing fraction lies strictly between 0 and 1
C4_Witness ==
    /\ op = "sweep" /\ NonNegativeCosts(args)
    /\ \E k \in 1 .. Len(results) :
            /\ 0 < results[k].crossing_fraction.num
            /\ results[k].crossing_fraction.num < results[k].crossing_fraction.den

\* the guard of log_slope, as the claim states it
SlopeUndefined(a) ==
    a.x1 <= 0 \/ a.x2 <= 0 \/ a.y1 <= 0 \/ a.y2 <= 0 \/ a.x1 = a.x2

\* the log-log slope s equals 1: ln(y2/y1) = ln(x2/x1)
SlopeIsOne(s) == s.kind = "logquot" /\ s.y2 * s.x1 = s.y1 * s.x2

C6_SweepLengthAndOrder ==
    Returned("sweep") =>
        /\ Len(ret) = args.steps
        /\ \A k \in 1 .. Len(ret) : ret[k].bytes_compute = args.bytes_compute
        /\ \A k \in 2 .. Len(ret) : ret[k - 1].bytes_cross <= ret[k].bytes_cross

\* C6 witness: a sweep of more than two steps has returned strictly more
\* crossing bytes at its end than at its start
C6_Witness ==
    /\ Returned("sweep")
    /\ args.steps > 2
    /\ Len(ret) = args.steps
    /\ ret[1].bytes_cross < ret[2].bytes_cross
    /\ ret[2].bytes_cross < ret[Len(ret)].bytes_cross

\* C7: with non-negative costs, c_total_pj never decreases along the sequence
\* sweep returns.
C7_TotalMonotone ==
    (Returned("sweep") /\ NonNegativeCosts(args)) =>
        \A k \in 2 .. Len(ret) : ret[k - 1].c_total_pj <= ret[k].c_total_pj

\* C7 witness: a sweep with a per-event cost and several bytes per event has
\* returned totals that rise somewhere along the sequence
C7_Witness ==
    /\ Returned("sweep") /\ NonNegativeCosts(args)
    /\ args.boundary.alpha_pj_per_event > 0
    /\ args.bytes_per_event > 1
    /\ \E k \in 2 .. Len(ret) : ret[k - 1].c_total_pj < ret[k].c_total_pj

\* C8: with non-negative costs, crossing_fraction never decreases along the
\* sequence sweep returns.
C8_FractionMonotone ==
    (Returned("sweep") /\ NonNegativeCosts(args)) =>
        \A k \in 2 .. Len(ret) :
            QLeq(ret[k - 1].crossing_fraction, ret[k].crossing_fraction)

\* C8 witness: a sweep has returned crossing fractions that rise somewhere
\* along the sequence while compute energy is present
C8_Witness ==
    /\ Returned("sweep") /\ NonNegativeCosts(args)
    /\ ret[1].c_intra_pj > 0
    /\ \E k \in 2 .. Len(ret) :
            /\ ~QLeq(ret[k].crossing_fraction, ret[k - 1].crossing_fraction)
            /\ ret[k - 1].crossing_fraction.num > 0

\* C9: the first element of every sequence sweep builds has epsilon_local
\* exactly 0, whatever the costs.
C9_FirstEpsilonZero ==
    op = "sweep" =>
        /\ Len(results) >= 1 => results[1].epsilon_local = ZeroSlope
        /\ pc = "returned" => ret[1].epsilon_local = ZeroSlope

\* C9 witness: a sweep has returned a sequence whose first epsilon_local is 0
\* and whose second is a defined slope
C9_Witness ==
    /\ Returned("sweep")
    /\ ret[1].epsilon_local = ZeroSlope
    /\ ret[2].epsilon_local.kind = "logquot"

CrossingDominatedReduction ==
    /\ Returned("compare") /\ NonNegativeCosts(args)
    /\ args.reduce_factor.num > args.reduce_factor.den
    /\ ret.baseline_cross_pj > ret.baseline_intra_pj

\* energy_gain_x > 1, and energy_gain_x >= 1
GainAboveOne(g) == g.kind = "inf" \/ g.num > g.den
GainAtLeastOne(g) == g.kind = "inf" \/ g.num >= g.den

\* C11 as stated: with non-negative costs, reduce_factor > 1 and crossing
\* energy dominating the baseline, energy_gain_x is strictly greater than 1.
C11_GainAboveOne_AsStated ==
    CrossingDominatedReduction => GainAboveOne(ret.energy_gain_x)

\* C11 as amended: under the same hypotheses energy_gain_x is a finite ratio
\* >= 1, and it is strictly greater than 1 whenever beta > 0 and the reduced
\* point has fewer crossing bytes than the baseline (the reduction is not
\* absorbed by rounding or by the 1-byte floor).
C11_GainAtLeastOne ==
    CrossingDominatedReduction =>
        /\ ret.energy_gain_x.kind = "quot"
        /\ GainAtLeastOne(ret.energy_gain_x)
        /\ (args.boundary.beta_pj_per_byte > 0
                /\ ret.reduced_cross_bytes < ret.baseline_cross_bytes) =>
                    GainAboveOne(ret.energy_gain_x)

\* C11 witness: such a compare with compute energy present has returned a
\* reduced point of fewer bytes and a gain above 1
C11_Witness ==
    /\ CrossingDominatedReduction
    /\ ret.baseline_intra_pj > 0
    /\ args.boundary.beta_pj_per_byte > 0
    /\ ret.reduced_cross_bytes < ret.baseline_cross_bytes
    /\ ret.reduced_cross_bytes > 1
    /\ GainAboveOne(ret.energy_gain_x)

\* baseline_cross_frac as compare computes it for arguments a with
\* alpha_pj_per_event replaced by alpha
BaselineFracWithAlpha(a, alpha) ==
    run_point(ProgramPoint(a.bytes_compute, a.cross_bytes,
                           EventsFor(a.cross_bytes, a.bytes_per_event)),
              a.compute,
              BoundaryCost(alpha, a.boundary.beta_pj_per_byte)).frac

\* C13: with everything else held fixed (compute cost and beta non-negative),
\* the baseline_cross_frac compare returns for an alpha_pj_per_event > 0 is at
\* least the one it returns for alpha_pj_per_event = 0.
C13_AlphaRaisesBaselineFraction ==
    (/\ Returned("compare")
     /\ args.compute.pj_per_byte >= 0
     /\ args.boundary.beta_pj_per_byte >= 0
     /\ args.boundary.alpha_pj_per_event > 0) =>
        QLeq(BaselineFracWithAlpha(args, 0), ret.baseline_cross_frac)

\* C13 witness: a compare with alpha > 0, beta > 0 and compute energy present
\* has returned a baseline_cross_frac strictly above the one for alpha = 0
C13_Witness ==
    /\ Returned("compare")
    /\ args.compute.pj_per_byte > 0 /\ args.bytes_compute > 0
    /\ args.boundary.beta_pj_per_byte > 0
    /\ args.boundary.alpha_pj_per_event > 0
    /\ BaselineFracWithAlpha(args, 0).num > 0
    /\ ~QLeq(ret.baseline_cross_frac, BaselineFracWithAlpha(args, 0))

\* the keys of the mapping compare returns
CompareKeys ==
    {"baseline_total_pj", "baseline_intra_pj", "baseline_cross_pj",
     "baseline_cross_frac", "baseline_cross_bytes", "baseline_events",
     "reduced_total_pj", "reduced_intra_pj", "reduced_cross_pj",
     "reduced_cross_frac", "reduced_cross_bytes", "reduced_events",
     "reduce_factor", "energy_gain_x", "elasticity_effective"}

\* C14: for any valid input the mapping compare returns has exactly the 15
\* keys, also when reduced_total = 0 and when reduce_factor = 1, and its
\* baseline_cross_bytes and reduce_factor echo the caller's arguments.
C14_CompareKeys ==
    Returned("compare") =>
        /\ DOMAIN ret = CompareKeys
        /\ Cardinality(DOMAIN ret) = 15
        /\ ret.baseline_cross_bytes = args.cross_bytes
        /\ ret.reduce_factor = args.reduce_factor

\* C14 witness: a compare with reduce_factor = 1 whose reduced total is 0 has
\* returned
C14_Witness ==
    /\ Returned("compare")
    /\ args.reduce_factor.num = args.reduce_factor.den
    /\ args.cross_bytes > 1
    /\ ret.reduced_total_pj = 0
    /\ DOMAIN ret = CompareKeys

\* C15: compare returns energy_gain_x = baseline_total_pj / reduced_total_pj
\* when reduced_total_pj > 0 and positive infinity, without raising, when it is
\* not; with non-negative costs the latter happens exactly when both totals
\* are 0.
C15_GainOrInfinity ==
    Returned("compare") =>
        /\ err = NoError
        /\ ret.reduced_total_pj > 0 =>
                /\ ret.energy_gain_x.kind = "quot"
                /\ ret.energy_gain_x.den > 0
                /\ ret.energy_gain_x.num * ret.reduced_total_pj
                        = ret.baseline_total_pj * ret.energy_gain_x.den
        /\ ret.reduced_total_pj <= 0 => ret.energy_gain_x = Infinity
        /\ NonNegativeCosts(args) =>
                ((ret.energy_gain_x = Infinity)
                    <=> (ret.baseline_total_pj = 0 /\ ret.reduced_total_pj = 0))

\* C15 witness: a compare under non-negative costs whose totals are both 0 has
\* returned the infinity sentinel
C15_Witness ==
    /\ Returned("compare") /\ NonNegativeCosts(args)
    /\ args.bytes_compute > 0
    /\ ret.baseline_total_pj = 0 /\ ret.reduced_total_pj = 0
    /\ ret.energy_gain_x = Infinity

\* ev = max(1, ceil(b / bytes_per_event))
EventsAre(ev, b, bpe) ==
    /\ ev >= 1
    /\ ev * bpe >= b
    /\ ev > 1 => (ev - 1) * bpe < b

\* C16: every point of sweep and both points of compare have events_cross =
\* max(1, ceil(bytes_cross / bytes_per_event)): at least 1, enough events to
\* carry the bytes, and no event more than needed.
C16_EventCount ==
    /\ op = "sweep" =>
            /\ \A k \in 1 .. Len(points) :
                    EventsAre(points[k].events_cross, points[k].bytes_cross,
                              args.bytes_per_event)
            /\ \A k \in 1 .. Len(results) :
                    EventsAre(results[k].events_cross, results[k].bytes_cross,
                              args.bytes_per_event)
    /\ Returned("compare") =>
            /\ EventsAre(ret.baseline_events, ret.baseline_cross_bytes,
                         args.bytes_per_event)
            /\ EventsAre(ret.reduced_events, ret.reduced_cross_bytes,
                         args.bytes_per_event)

\* C16 witness: a sweep has returned a point whose bytes do not fill its last
\* event, and a point of one event
C16_Witness ==
    /\ Returned("sweep")
    /\ args.bytes_per_event > 1
    /\ \E k \in 1 .. Len(ret) :
            /\ ret[k].events_cross > 1
            /\ ret[k].events_cross * args.bytes_per_event > ret[k].bytes_cross
    /\ \E k \in 1 .. Len(ret) :
            ret[k].events_cross = 1 /\ ret[k].bytes_cross < args.bytes_per_event

\* C17: reduced_cross_bytes = max(1, round(cross_bytes / reduce_factor)) is an
\* integer >= 1; it is 1 whenever cross_bytes / reduce_factor < 1/2; otherwise
\* it differs from cross_bytes / reduce_factor by at most 1/2.
C17_ReducedBytes ==
    Returned("compare") =>
        LET n == args.reduce_factor.num
            d == args.reduce_factor.den
            rb == ret.reduced_cross_bytes
            twice_diff == 2 * rb * n - 2 * args.cross_bytes * d
        IN  /\ rb \in Nat /\ rb >= 1
            /\ 2 * args.cross_bytes * d < n => rb = 1
            /\ 2 * args.cross_bytes * d >= n =>
                    (twice_diff <= n /\ -twice_diff <= n)

\* C17 witness: a compare whose quotient cross_bytes / reduce_factor is not an
\* integer and is at least 1 has returned
C17_Witness ==
    /\ Returned("compare")
    /\ args.cross_bytes * args.reduce_factor.den > args.reduce_factor.num
    /\ (args.cross_bytes * args.reduce_factor.den) % args.reduce_factor.num # 0
    /\ ret.reduced_cross_bytes > 1
    /\ ret.reduced_cross_bytes * args.reduce_factor.num
            > args.cross_bytes * args.reduce_factor.den

\* the value of a slope s is >= 0, and <= 1: for x1 < x2 the quotient
\* ln(y2/y1) / ln(x2/x1) is >= 0 iff y2 >= y1 and <= 1 iff y2/y1 <= x2/x1
SlopeAtLeastZero(s) ==
    \/ s.kind = "zero"
    \/ /\ s.kind = "logquot"
       /\ \/ s.x1 < s.x2 /\ s.y1 <= s.y2
          \/ s.x1 > s.x2 /\ s.y1 >= s.y2
SlopeAtMostOne(s) ==
    \/ s.kind = "zero"
    \/ /\ s.kind = "logquot"
       /\ \/ s.x1 < s.x2 /\ s.y2 * s.x1 <= s.y1 * s.x2
          \/ s.x1 > s.x2 /\ s.y2 * s.x1 >= s.y1 * s.x2

AlphaSlopeAboveOneReached ==
    /\ Returned("sweep") /\ NonNegativeCosts(args)
    /\ args.boundary.alpha_pj_per_event > 0
    /\ \E k \in 2 .. Len(ret) : ~SlopeAtMostOne(ret[k].epsilon_local)

\* a slope is a finite number
SlopeFinite(s) == s.kind \in {"zero", "logquot"}

\* energy_gain_x <= 1
GainAtMostOne(g) == g.kind = "quot" /\ g.num <= g.den

\* what C19 says of a returned compare
ElasticityWellBehaved ==
    LET rf == args.reduce_factor
        eff == ret.elasticity_effective
    IN  /\ SlopeFinite(eff)
        /\ SlopeAtLeastZero(eff)
        /\ rf.num = rf.den => eff = ZeroSlope
        /\ rf.num > rf.den =>
                /\ ret.reduced_cross_bytes <= ret.baseline_cross_bytes
                /\ ret.reduced_events <= ret.baseline_events
                /\ ret.reduced_total_pj <= ret.baseline_total_pj
                /\ GainAtLeastOne(ret.energy_gain_x)
        /\ rf.num < rf.den =>
                /\ ret.reduced_cross_bytes >= ret.baseline_cross_bytes
                /\ ret.reduced_events >= ret.baseline_events
                /\ ret.reduced_total_pj >= ret.baseline_total_pj
                /\ GainAtMostOne(ret.energy_gain_x)

\* C19: for every valid compare input with non-negative costs
\* elasticity_effective is a finite number >= 0: 0 when reduce_factor = 1; for
\* reduce_factor > 1 the reduced bytes, events and total do not exceed the
\* baseline's and energy_gain_x >= 1; for reduce_factor < 1 they are not below
\* the baseline's and energy_gain_x <= 1; also when reduced_total_pj = 0 and
\* energy_gain_x is the infinity sentinel.
C19_ElasticityFiniteNonNegative ==
    (Returned("compare") /\ NonNegativeCosts(args)) => ElasticityWellBehaved

\* the same away from the degenerate case: with reduced_total_pj > 0
ElasticityWellBehavedWhenReducedTotalPositive ==
    (Returned("compare") /\ NonNegativeCosts(args) /\ ret.reduced_total_pj > 0)
        => ElasticityWellBehaved

\* the degenerate case: reduced_total_pj = 0 gives an infinite
\* elasticity_effective unless reduce_factor = 1
DegenerateElasticityIsInfinite ==
    (Returned("compare") /\ NonNegativeCosts(args) /\ ret.reduced_total_pj = 0) =>
        /\ ret.energy_gain_x = Infinity
        /\ args.reduce_factor.num > args.reduce_factor.den =>
                ret.elasticity_effective = Infinity
        /\ args.reduce_factor.num < args.reduce_factor.den =>
                ret.elasticity_effective = NegInfinity
        /\ args.reduce_factor.num = args.reduce_factor.den =>
                ret.elasticity_effective = ZeroSlope

\* ------------------------------------------------- production magnitudes
\* With the package's presets and command-line defaults an energy is of the
\* order of 10^10 cost quanta, beyond the machine integers used above.  This
\* part evaluates the same functions on wide naturals: a wide natural is the
\* sequence of its base-10000 digits, least significant first, with no zero
\* as its last digit (<<>> is 0).  Preset costs are non-negative, so no sign
\* is needed.

\* the wide natural of the integer n >= 0
RECURSIVE Wide(_)
Wide(n) == IF n = 0 THEN <<>> ELSE <<n % 10000>> \o Wide(n \div 10000)

\* a + b + c for wide a, b and a carry c
RECURSIVE WideAddCarry(_, _, _)
WideAddCarry(a, b, c) ==
    IF a = <<>> /\ b = <<>>
    THEN Wide(c)
    ELSE LET x == IF a = <<>> THEN 0 ELSE Head(a)
             y == IF b = <<>> THEN 0 ELSE Head(b)
             s == x + y + c
         IN  <<s % 10000>> \o WideAddCarry(IF a = <<>> THEN a ELSE Tail(a),
                                           IF b = <<>> THEN b ELSE Tail(b),
                                           s \div 10000)

WideAdd(a, b) == WideAddCarry(a, b, 0)

\* a * d + c for wide a, a digit d > 0 and a carry c
RECURSIVE WideScale(_, _, _)
WideScale(a, d, c) ==
    IF a = <<>>
    THEN Wide(c)
    ELSE LET s == Head(a) * d + c
         IN  <<s % 10000>> \o WideScale(Tail(a), d, s \div 10000)

\* a * 10000
WideShift(a) == IF a = <<>> THEN a ELSE <<0>> \o a

\* a * b, by the digits of the shorter factor
RECURSIVE WideMul(_, _)
WideMul(a, b) ==
    IF a = <<>> \/ b = <<>>
    THEN <<>>
    ELSE IF Len(b) > Len(a)
    THEN WideMul(b, a)
    ELSE WideAdd(IF Head(b) = 0 THEN <<>> ELSE WideScale(a, Head(b), 0),
                 WideShift(WideMul(a, Tail(b))))

RECURSIVE WidePow(_, _)
WidePow(a, e) == IF e = 0 THEN Wide(1) ELSE WideMul(WidePow(a, e - 1), a)

\* a < b for wide a, b
RECURSIVE WideLess(_, _)
WideLess(a, b) ==
    IF Len(a) # Len(b) THEN Len(a) < Len(b)
    ELSE IF a = <<>> THEN FALSE
    ELSE LET n == Len(a)
         IN  IF a[n] # b[n] THEN a[n] < b[n]
             ELSE WideLess(SubSeq(a, 1, n - 1), SubSeq(b, 1, n - 1))

\* DEFAULT_BOUNDARIES and DEFAULT_COMPUTE, in cost quanta of 0.0001 pJ
DEFAULT_BOUNDARIES ==
    [analog |-> BoundaryCost(0, 32000),
     memory |-> BoundaryCost(0, 12500),
     chiplet |-> BoundaryCost(0, 50000),
     hbm |-> BoundaryCost(0, 100000),
     voltage |-> BoundaryCost(0, 8000)]

DEFAULT_COMPUTE ==
    [digital |-> ComputeCost(2500),
     analog |-> ComputeCost(1),
     lowv |-> ComputeCost(500)]

\* --bytes, --cross_bytes and --bytes_per_event as the command line defaults them
DefaultBytes == 262144
DefaultCrossBytes == 196608
DefaultBytesPerEvent == 256
\* the crossing volume of the compute-dominated configuration
SmallCrossBytes == 1024

\* crossing volumes: a small one, the default, and one equal to --bytes
PresetCrossBytes == {SmallCrossBytes, DefaultCrossBytes, DefaultBytes}
\* reduce factors 0.5, 1.0 and the default 3.0
PresetFactors == {Quot(1, 2), Quot(2, 2), Quot(6, 2)}

WideZero == Quot(Wide(0), Wide(1))

WideEnergyIntra(bytes_compute, compute) ==
    WideMul(Wide(bytes_compute), Wide(compute.pj_per_byte))

WideEnergyCross(bytes_cross, events_cross, boundary) ==
    WideAdd(WideMul(Wide(events_cross), Wide(boundary.alpha_pj_per_event)),
            WideMul(Wide(bytes_cross), Wide(boundary.beta_pj_per_byte)))

\* c_total <= 0 is c_total = 0 for a natural
WideCrossingFraction(c_cross, c_total) ==
    IF c_total = Wide(0) THEN WideZero ELSE Quot(c_cross, c_total)

WideRunPoint(p, compute, boundary) ==
    LET c_intra == WideEnergyIntra(p.bytes_compute, compute)
        c_cross == WideEnergyCross(p.bytes_cross, p.events_cross, boundary)
        c_total == WideAdd(c_intra, c_cross)
        frac == WideCrossingFraction(c_cross, c_total)
    IN  [c_intra |-> c_intra, c_cross |-> c_cross, c_total |-> c_total, frac |-> frac]

\* faulty variant of WideGain: the quotient is inverted
WideGain_inverted(base_total, red_total) ==
    IF red_total # Wide(0) /\ base_total # Wide(0)
    THEN Quot(red_total, base_total)
    ELSE Infinity

\* base_total / red_total if red_total > 0 else float("inf")
WideGain(base_total, red_total) ==
    IF red_total # Wide(0) THEN Quot(base_total, red_total) ELSE Infinity

\* gain > 0
WideGainPositive(gain) == gain.kind = "inf" \/ gain.num # Wide(0)

WideEffectiveElasticity(gain, reduce_factor) ==
    IF reduce_factor.num # reduce_factor.den /\ WideGainPositive(gain)
    THEN LogGainOverLogFactor(gain, reduce_factor)
    ELSE ZeroSlope

WideCompareResult(a, base_ev, red_bytes, red_ev, b, r) ==
    LET gain == WideGain(b.c_total, r.c_total)
    IN  [baseline_total_pj |-> b.c_total,
         baseline_intra_pj |-> b.c_intra,
         baseline_cross_pj |-> b.c_cross,
         baseline_cross_frac |-> b.frac,
         baseline_cross_bytes |-> a.cross_bytes,
         baseline_events |-> base_ev,
         reduced_total_pj |-> r.c_total,
         reduced_intra_pj |-> r.c_intra,
         reduced_cross_pj |-> r.c_cross,
         reduced_cross_frac |-> r.frac,
         reduced_cross_bytes |-> red_bytes,
         reduced_events |-> red_ev,
         reduce_factor |-> a.reduce_factor,
         energy_gain_x |-> gain,
         elasticity_effective |-> WideEffectiveElasticity(gain, a.reduce_factor)]

\* the compare subcommand resolves its costs from the named presets and calls
\* compare_baseline_vs_reduced
PresetCompareCall ==
    /\ pc = "idle"
    /\ \E b \in DOMAIN DEFAULT_BOUNDARIES, c \in DOMAIN DEFAULT_COMPUTE,
          cb \in PresetCrossBytes, rf \in PresetFactors :
            args' = [bytes_compute |-> DefaultBytes, cross_bytes |-> cb,
                     bytes_per_event |-> DefaultBytesPerEvent,
                     reduce_factor |-> rf,
                     compute |-> DEFAULT_COMPUTE[c],
                     boundary |-> DEFAULT_BOUNDARIES[b]]
    /\ op' = "compare"
    /\ pc' = "compare_validate"
    /\ UNCHANGED <<i, points, energies, results, ret, err>>

\* the two run_point calls, gain, eff_eps and the returned dict, in wide naturals
WideCompareEvaluate ==
    /\ pc = "compare_run"
    /\ LET base == points[1]
           red == points[2]
           b == WideRunPoint(base, args.compute, args.boundary)
           r == WideRunPoint(red, args.compute, args.boundary)
       IN  /\ energies' = <<b, r>>
           /\ ret' = WideCompareResult(args, base.events_cross, red.bytes_cross,
                                       red.events_cross, b, r)
    /\ pc' = "returned"
    /\ UNCHANGED <<op, args, i, points, results, err>>

PresetNext ==
    \/ PresetCompareCall
    \/ CompareValidate
    \/ WideCompareEvaluate

PresetSpec == Init /\ [][PresetNext]_vars

\* (x2 / x1)^p < (y2 / y1)^q for wide x1, x2, y1, y2 > 0
WidePowerLess(x1, x2, p, y1, y2, q) ==
    WideLess(WideMul(WidePow(y1, q), WidePow(x2, p)),
             WideMul(WidePow(y2, q), WidePow(x1, p)))

\* the slope ln(y2 / y1) / ln(x2 / x1), with x1 < x2, is above (below) p / q
ElasticityAbove(s, p, q) ==
    /\ s.kind = "logquot"
    /\ WidePowerLess(Wide(s.x1), Wide(s.x2), p, s.y1, s.y2, q)

ElasticityBelow(s, p, q) ==
    /\ s.kind = "logquot"
    /\ WidePowerLess(s.y1, s.y2, q, Wide(s.x1), Wide(s.x2), p)

\* the finite gain g is above (below) base^(p / q)
GainAbovePower(g, base, p, q) ==
    /\ g.kind = "quot"
    /\ WidePowerLess(Wide(1), Wide(base), p, g.den, g.num, q)

GainBelowPower(g, base, p, q) ==
    /\ g.kind = "quot"
    /\ WidePowerLess(g.den, g.num, q, Wide(1), Wide(base), p)

\* the crossing-dominated configuration: compute 0.0001 pJ/byte, alpha 0,
\* beta 3.2, 262144 compute bytes, 262144 crossing bytes, reduce_factor 3
CrossingDominatedConfig(a) ==
    /\ a.bytes_compute = DefaultBytes
    /\ a.cross_bytes = DefaultBytes
    /\ a.compute = DEFAULT_COMPUTE.analog
    /\ a.boundary = DEFAULT_BOUNDARIES.analog
    /\ a.reduce_factor = Quot(6, 2)

\* the compute-dominated configuration: compute 0.25 pJ/byte, alpha 0,
\* beta 1.25, 262144 compute bytes, 1024 crossing bytes, reduce_factor 3
ComputeDominatedConfig(a) ==
    /\ a.bytes_compute = DefaultBytes
    /\ a.cross_bytes = SmallCrossBytes
    /\ a.compute = DEFAULT_COMPUTE.digital
    /\ a.boundary = DEFAULT_BOUNDARIES.memory
    /\ a.reduce_factor = Quot(6, 2)

\* C12: compare's elasticity_effective exceeds 0.95 in the crossing-dominated
\* configuration, where energy_gain_x > 3^0.95, and is below 0.1 in the
\* compute-dominated configuration, where energy_gain_x < 3^0.1.  The
\* inequalities are decided exactly: slope > 19/20 iff gain^20 > 3^19, and
\* slope < 1/10 iff gain^10 < 3.
C12_ElasticityThresholds ==
    Returned("compare") =>
        /\ CrossingDominatedConfig(args) =>
                /\ ElasticityAbove(ret.elasticity_effective, 19, 20)
                /\ GainAbovePower(ret.energy_gain_x, 3, 19, 20)
        /\ ComputeDominatedConfig(args) =>
                /\ ElasticityBelow(ret.elasticity_effective, 1, 10)
                /\ GainBelowPower(ret.energy_gain_x, 3, 1, 10)

\* C12 witness: the crossing-dominated configuration has returned, with a
\* reduced point of round(262144 / 3) = 87381 bytes and an elasticity above 0.95
C12_Witness ==
    /\ Returned("compare")
    /\ CrossingDominatedConfig(args)
    /\ ret.reduced_cross_bytes = 87381
    /\ ElasticityAbove(ret.elasticity_effective, 19, 20)

\* the compute-dominated configuration has returned as well, with a reduced
\* point of round(1024 / 3) = 341 bytes and an elasticity below 0.1
ComputeDominatedReached ==
    /\ Returned("compare")
    /\ ComputeDominatedConfig(args)
    /\ ret.reduced_cross_bytes = 341
    /\ ElasticityBelow(ret.elasticity_effective, 1, 10)

====
